---- MODULE Spec2Model ----
(***************************************************************************)
(* Model of the BID player-registry application (src/app.py): column       *)
(* normalisation, the memoised multi-archive load, the three query        *)
(* functions, and the control flow of main.                                *)
(*                                                                         *)
(* Text is modelled as a sequence of one-character strings, so that        *)
(* lower(), strip(), substring tests and regular-expression search are     *)
(* computed character by character, as the code computes them.             *)
(***************************************************************************)
EXTENDS Integers, Sequences, FiniteSets, TLC

VARIABLES
    files,       \* the working directory: path -> archive file on disk (or absent)
    cache,       \* st.cache_data store of load_data: key -> dataset
    pc,          \* position of the current run of main
    zip_files,   \* main: zip_files (line 223)
    signatures,  \* main: signatures (line 224)
    frames,      \* load_data: frames (line 121)
    df,          \* main: df (line 228), NoDataset while unbound
    call,        \* record of the last load_data call of the run
    queried,     \* the query functions invoked in the current run
    writesLeft,  \* file modifications the behaviour may still make
    runsLeft,    \* runs of main the behaviour may still start
    hist,        \* what earlier load_data calls were given and returned
    raw,         \* normalizar_colunas: the table given
    normOut,     \* normalizar_colunas: the table returned
    ds,          \* query functions: the dataset given
    times,       \* main: times (line 251)
    out          \* query functions: the last call and its outcome

vars == <<files, cache, pc, zip_files, signatures, frames, df, call, queried,
          writesLeft, runsLeft, hist, raw, normOut, ds, times, out>>

sysVars   == <<files, cache, pc, zip_files, signatures, frames, df, call,
               queried, writesLeft, runsLeft, hist>>
normVars  == <<raw, normOut>>
queryVars == <<ds, times, out>>

(***************************************************************************)
(* Bounds of the model.                                                    *)
(***************************************************************************)
MaxWords  == 2   \* words in a raw header
MaxCols   == 2   \* raw columns of a table given to normalizar_colunas
MaxRows   == 2   \* rows of a dataset given to the query functions
MaxQuery  == 2   \* characters of a name query
MaxLimite == 3   \* largest value of limite
MaxWrites == 1   \* file modifications in a behaviour of Spec
MaxRuns   == 2   \* runs of main in a behaviour of Spec
MaxChurnWrites == 2   \* file modifications in a behaviour of SpecChurn
MaxChurnRuns   == 3   \* runs of main in a behaviour of SpecChurn
MaxSize   == 2   \* largest byte size of an archive
MaxTime   == 2   \* latest tick of the clock
TicksPerSecond == 2   \* resolution of st_mtime, in ticks per second

(***************************************************************************)
(* Text.                                                                   *)
(***************************************************************************)
NA == <<"<NA>">>          \* pd.NA: not a text, never equal to one

UpperChars == <<"A", "B", "C", "D", "E", "I", "L", "N", "O", "T", "Í">>
LowerChars == <<"a", "b", "c", "d", "e", "i", "l", "n", "o", "t", "í">>

\* str.lower() on one character
LowerChar(c) ==
    IF \E i \in 1..Len(UpperChars) : UpperChars[i] = c
    THEN LowerChars[CHOOSE i \in 1..Len(UpperChars) : UpperChars[i] = c]
    ELSE c

\* str.lower()
RECURSIVE Lower(_)
Lower(s) == IF s = <<>> THEN <<>> ELSE <<LowerChar(Head(s))>> \o Lower(Tail(s))

\* str.strip(): leading and trailing whitespace removed
Strip(s) ==
    LET inked == {i \in 1..Len(s) : s[i] # " "}
    IN  IF inked = {} THEN <<>>
        ELSE LET lo == CHOOSE i \in inked : \A j \in inked : i <= j
                 hi == CHOOSE i \in inked : \A j \in inked : j <= i
             IN  SubSeq(s, lo, hi)

\* Python's `q in s` on texts: q occurs in s as a contiguous run
Contains(s, q) ==
    \E i \in 0..(Len(s) - Len(q)) : \A k \in 1..Len(q) : s[i + k] = q[k]

\* code point of a character (the order Python compares texts by)
Ord(c) ==
    CASE c = " " -> 32  [] c = "(" -> 40  [] c = "." -> 46  [] c = "2" -> 50
      [] c = "A" -> 65  [] c = "L" -> 76  [] c = "T" -> 84
      [] c = "a" -> 97  [] c = "b" -> 98  [] c = "d" -> 100
      [] c = "o" -> 111 [] c = "s" -> 115 [] OTHER -> 0

\* s < t on texts: lexicographic by code point
TextLess(s, t) ==
    \E i \in 1..(Len(t)) :
        /\ \A k \in 1..(i - 1) : k <= Len(s) /\ s[k] = t[k]
        /\ \/ i = Len(s) + 1
           \/ i <= Len(s) /\ Ord(s[i]) < Ord(t[i])

(***************************************************************************)
(* normalizar_colunas (lines 22-71).                                       *)
(* A table is [columns |-> sequence of labels, data |-> sequence of rows]  *)
(* and a row is the sequence of its values, aligned with the columns.      *)
(***************************************************************************)
\* the canonical labels; a label is kept apart from every raw header, which
\* is a sequence of single characters (a raw header spelt like a canonical
\* label is renamed to it by the rules below)
nome_completo == <<"nome_completo">>
inscricao     == <<"inscricao">>
contrato      == <<"contrato">>
data          == <<"data">>
inicio        == <<"inicio">>
cbf           == <<"cbf">>
apelido       == <<"apelido">>
nascimento    == <<"nascimento">>
time          == <<"time">>
idade         == <<"idade">>
fonte_zip     == <<"__fonte_zip">>

colunas_esperadas ==
    <<nome_completo, inscricao, contrato, data, inicio, cbf, apelido,
      nascimento, time, idade>>

\* the if/elif chain of lines 29-50: the label a raw header is renamed to
\* (the header itself when no rule matches)
RenameHeader(orig) ==
    LET low == Lower(Strip(orig))
        has(kw) == Contains(low, kw)
    IN  IF has(<<"n","o","m","e">>) /\ has(<<"c","o","m","p","l","e","t","o">>)
            THEN nome_completo
        ELSE IF has(<<"i","n","s","c","r","i">>) THEN inscricao
        ELSE IF has(<<"c","o","n","t","r","a","t","o">>) THEN contrato
        ELSE IF has(<<"i","n","í","c","i","o">>) \/ has(<<"i","n","i","c","i","o">>)
            THEN inicio
        ELSE IF low = <<"d","a","t","a">> \/ has(<<"d","a","t","a"," ">>) THEN data
        ELSE IF has(<<"c","b","f">>) THEN cbf
        ELSE IF has(<<"a","p","e","l","i","d","o">>) THEN apelido
        ELSE IF has(<<"n","a","s","c","i","m","e","n","t","o">>) THEN nascimento
        ELSE IF has(<<"t","i","m","e">>) \/ has(<<"c","l","u","b","e">>)
                \/ has(<<"e","q","u","i","p","e">>) THEN time
        ELSE IF has(<<"i","d","a","d","e">>) THEN idade
        ELSE orig

\* the positions of the columns labelled c
ColumnsLabelled(cols, c) == {i \in 1..Len(cols) : cols[i] = c}

\* the elements of a set of integers in ascending order
RECURSIVE Ascending(_)
Ascending(S) ==
    IF S = {} THEN <<>>
    ELSE LET m == CHOOSE x \in S : \A y \in S : x <= y
         IN  <<m>> \o Ascending(S \ {m})

\* df[labels]: for each label in turn, every column carrying it
RECURSIVE SelectColumns(_, _)
SelectColumns(cols, labels) ==
    IF labels = <<>> THEN <<>>
    ELSE Ascending(ColumnsLabelled(cols, Head(labels)))
         \o SelectColumns(cols, Tail(labels))

\* df.rename(columns=col_map) (line 52): the labels of the columns, in order
RECURSIVE RenameAll(_)
RenameAll(headers) ==
    IF headers = <<>> THEN <<>>
    ELSE <<RenameHeader(Head(headers))>> \o RenameAll(Tail(headers))

normalizar_colunas(t) ==
    LET renamed == RenameAll(t.columns)
        absent  == SelectSeq(colunas_esperadas,
                             LAMBDA c : ColumnsLabelled(renamed, c) = {})
        cols    == renamed \o absent                      \* lines 66-68
        rowsNA  == [r \in 1..Len(t.data) |->
                       t.data[r] \o [k \in 1..Len(absent) |-> NA]]
        pick    == SelectColumns(cols, colunas_esperadas) \* line 70
    IN  [columns |-> [k \in 1..Len(pick) |-> cols[pick[k]]],
         data    |-> [r \in 1..Len(rowsNA) |->
                         [k \in 1..Len(pick) |-> rowsNA[r][pick[k]]]]]

(***************************************************************************)
(* The query functions (lines 149-209).                                    *)
(***************************************************************************)
Todos == <<"T","o","d","o","s">>

\* the position of the column labelled c in a table whose labels are distinct
Col(t, c) == CHOOSE i \in 1..Len(t.columns) : t.columns[i] = c

\* the columns every query result is projected to (lines 169-180, 194-205)
cols ==
    <<nome_completo, apelido, time, idade, nascimento, contrato, inicio, data,
      inscricao, cbf>>

\* df2[cols]
Project(t, labels) ==
    LET pick == SelectColumns(t.columns, labels)
    IN  [columns |-> [k \in 1..Len(pick) |-> t.columns[pick[k]]],
         data    |-> [r \in 1..Len(t.data) |->
                         [k \in 1..Len(pick) |-> t.data[r][pick[k]]]]]

\* df2[mask]: the rows a predicate keeps, in their order
Filter(t, Keep(_)) == [columns |-> t.columns, data |-> SelectSeq(t.data, Keep)]

\* re.compile(pat): among the characters of the model only "(" is malformed
\* on its own (an unterminated group)
RegexCompiles(pat) == \A k \in 1..Len(pat) : pat[k] # "("

\* re.search(pat, s, re.IGNORECASE): "." matches any character, every other
\* character of the model matches itself up to case
RegexSearch(pat, s) ==
    \E i \in 0..(Len(s) - Len(pat)) :
        \A k \in 1..Len(pat) :
            pat[k] = "." \/ LowerChar(pat[k]) = LowerChar(s[i + k])

\* a variant in which a null value counts as a match (na=True)
StrContainsNullMatches(v, pat) == v = NA \/ RegexSearch(pat, v)

\* Series.str.contains(pat, case=False, na=False) on one value; regex=True is
\* the default of pandas
StrContains(v, pat) == v # NA /\ RegexSearch(pat, v)

\* ascending order of sort_values on one key: nulls last
KeyLess(a, b) == a # NA /\ (b = NA \/ TextLess(a, b))

\* the order of sort_values on a list of keys
RECURSIVE RowLess(_, _, _)
RowLess(x, y, keys) ==
    /\ keys # <<>>
    /\ \/ KeyLess(x[Head(keys)], y[Head(keys)])
       \/ x[Head(keys)] = y[Head(keys)] /\ RowLess(x, y, Tail(keys))

\* sort_values: rows in ascending order of the keys, ties in their given order
RECURSIVE SortRows(_, _)
SortRows(rows, keys) ==
    IF rows = <<>> THEN <<>>
    ELSE LET rest   == SortRows(SubSeq(rows, 1, Len(rows) - 1), keys)
             x      == rows[Len(rows)]
             before == {i \in 1..Len(rest) : ~RowLess(x, rest[i], keys)}
             n      == IF before = {} THEN 0
                       ELSE CHOOSE i \in before : \A j \in before : j <= i
         IN  SubSeq(rest, 1, n) \o <<x>> \o SubSeq(rest, n + 1, Len(rest))

sort_values(t, labels) ==
    [columns |-> t.columns,
     data    |-> SortRows(t.data, [k \in 1..Len(labels) |-> Col(t, labels[k])])]

\* DataFrame.head(n)
head(t, n) ==
    [columns |-> t.columns,
     data    |-> SubSeq(t.data, 1, IF n < Len(t.data) THEN n ELSE Len(t.data))]

NoTable == [columns |-> <<>>, data |-> <<>>]

\* get_times (lines 149-153): the distinct trimmed non-empty team values, sorted
get_times(t) ==
    LET series == {Strip(t.data[r][Col(t, time)]) :
                     r \in {q \in 1..Len(t.data) : t.data[q][Col(t, time)] # NA}}
        named  == series \ {<<>>}
        RECURSIVE Sorted(_)
        Sorted(S) ==
            IF S = {} THEN <<>>
            ELSE LET m == CHOOSE x \in S : \A y \in S \ {x} : TextLess(x, y)
                 IN  <<m>> \o Sorted(S \ {m})
    IN  Sorted(named)

\* search_jogadores (lines 156-184); raised: an exception leaves the function
search_jogadores(t, nome_busca, time_filtro, limite) ==
    LET pat   == Strip(nome_busca)                                 \* line 161
        byName == IF nome_busca # <<>>                             \* line 160
                  THEN Filter(t, LAMBDA row :
                           \/ StrContains(row[Col(t, nome_completo)], pat)
                           \/ StrContains(row[Col(t, apelido)], pat))
                  ELSE t
        byTime == IF time_filtro # <<>> /\ time_filtro # Todos     \* line 166
                  THEN Filter(byName, LAMBDA row : row[Col(t, time)] = time_filtro)
                  ELSE byName
    IN  IF nome_busca # <<>> /\ ~RegexCompiles(pat)
        THEN [raised |-> TRUE, result |-> NoTable]
        ELSE [raised |-> FALSE,
              result |-> head(sort_values(Project(byTime, cols), <<nome_completo>>),
                              limite)]

\* get_detalhes_jogador (lines 187-209)
get_detalhes_jogador(t, nome_parte) ==
    LET pat  == Strip(nome_parte)                                  \* line 190
        kept == Filter(t, LAMBDA row : StrContains(row[Col(t, nome_completo)], pat))
    IN  IF ~RegexCompiles(pat)
        THEN [raised |-> TRUE, result |-> NoTable]
        ELSE [raised |-> FALSE,
              result |-> sort_values(Project(kept, cols),
                                     <<nome_completo, data, inicio>>)]

(***************************************************************************)
(* Specification SpecNorm: normalizar_colunas applied to every raw table   *)
(* of the bounded input space.                                             *)
(***************************************************************************)
Words ==
    { <<"N","o","m","e">>, <<"C","o","m","p","l","e","t","o">>,
      <<"D","a","t","a">>, <<"N","a","s","c","i","m","e","n","t","o">>,
      <<"T","i","m","e">>, <<"C","l","u","b","e">>, <<"O","b","s">> }

\* texts of n words separated by one blank
RECURSIVE Phrases(_)
Phrases(n) ==
    IF n = 1 THEN Words
    ELSE Phrases(n - 1) \cup {p \o <<" ">> \o w : p \in Phrases(n - 1), w \in Words}

\* raw headers as read_csv yields them: a phrase, possibly with a leading blank
RawHeaders == Phrases(MaxWords) \cup {<<" ">> \o p : p \in Phrases(MaxWords)}

Cell(i) == <<"v", <<"1", "2", "3", "4", "5">>[i]>>

\* read_csv keeps the headers of one file distinct
RawTables ==
    { [columns |-> h, data |-> << [i \in 1..Len(h) |-> Cell(i)] >>] :
        h \in { g \in UNION {[1..n -> RawHeaders] : n \in 1..MaxCols} :
                  \A i, j \in 1..Len(g) : i # j => g[i] # g[j] } }

SysIdle ==
    /\ files = <<>> /\ cache = <<>> /\ pc = "off" /\ zip_files = <<>>
    /\ signatures = <<>> /\ frames = <<>> /\ df = <<>> /\ call = <<>>
    /\ queried = {} /\ writesLeft = 0 /\ runsLeft = 0 /\ hist = <<>>
NormIdle  == raw = <<>> /\ normOut = <<>>
QueryIdle == ds = <<>> /\ times = <<>> /\ out = <<>>

InitNorm ==
    /\ raw \in {<<t>> : t \in RawTables}
    /\ normOut = <<>>
    /\ SysIdle /\ QueryIdle

Normalizar ==
    /\ normOut = <<>>
    /\ normOut' = <<normalizar_colunas(raw[1])>>
    /\ UNCHANGED <<raw, sysVars, queryVars>>

NextNorm == Normalizar
SpecNorm == InitNorm /\ [][NextNorm]_vars

\* the raw columns of the table given that a rule maps to canonical field c
MappedTo(c) == {i \in 1..Len(raw[1].columns) : RenameHeader(raw[1].columns[i]) = c}

\* C3: normalizar_colunas returns exactly the ten canonical fields, each once
\* and in the fixed order, whatever the raw headers (also when several raw
\* headers match the same rule); an unmatched canonical field is null in every
\* row, a matched one carries the values of a raw column mapped to it, and no
\* unmapped header survives.
C3_NormalizationTotal ==
    normOut # <<>> =>
        /\ normOut[1].columns = colunas_esperadas
        /\ \A r \in 1..Len(normOut[1].data) :
             /\ Len(normOut[1].data[r]) = Len(colunas_esperadas)
             /\ \A k \in 1..Len(colunas_esperadas) :
                  IF MappedTo(colunas_esperadas[k]) = {}
                  THEN normOut[1].data[r][k] = NA
                  ELSE \E i \in MappedTo(colunas_esperadas[k]) :
                           normOut[1].data[r][k] = raw[1].data[r][i]

\* the same, for the tables in which no two raw headers match the same rule
DistinctTargets ==
    \A c \in {colunas_esperadas[k] : k \in 1..Len(colunas_esperadas)} :
        Cardinality(MappedTo(c)) <= 1

NormOnDistinctTargets == (normOut # <<>> /\ DistinctTargets) => C3_NormalizationTotal

(***************************************************************************)
(* Specification SpecQuery: one pass over the query part of main on every  *)
(* dataset of the bounded input space: the team list, then one query.      *)
(***************************************************************************)
DatasetColumns == colunas_esperadas \o <<fonte_zip>>

bid1 == <<"b","i","d",".","c","s","v",".","z","i","p">>
bid2 == <<"b","i","d","2",".","c","s","v",".","z","i","p">>

\* a row of a loaded dataset with the given name, nickname and team
MkRow(n, a, tm) ==
    [k \in 1..Len(DatasetColumns) |->
        IF DatasetColumns[k] = nome_completo THEN n
        ELSE IF DatasetColumns[k] = apelido THEN a
        ELSE IF DatasetColumns[k] = time THEN tm
        ELSE IF DatasetColumns[k] = fonte_zip THEN bid1
        ELSE NA]

RowChoices ==
    { MkRow(<<"A","b">>, NA, <<"L">>),
      MkRow(<<"b">>, <<"a">>, <<" ","L">>),
      MkRow(NA, NA, <<"L">>),
      MkRow(NA, <<"a">>, Todos) }

Datasets ==
    { [columns |-> DatasetColumns, data |-> d] :
        d \in UNION {[1..n -> RowChoices] : n \in 0..MaxRows} }

QueryChars == {"a", " ", ".", "("}
Queries    == UNION {[1..n -> QueryChars] : n \in 0..MaxQuery}

InitQuery ==
    /\ ds \in {<<t>> : t \in Datasets}
    /\ times = <<>>
    /\ out = <<>>
    /\ SysIdle /\ NormIdle

\* main, line 251
GetTimes ==
    /\ times = <<>> /\ out = <<>>
    /\ times' = <<get_times(ds[1])>>
    /\ UNCHANGED <<ds, out, sysVars, normVars>>

\* the options of the team selector (lines 256-257)
opcoes_times == <<Todos>> \o (IF times = <<>> THEN <<>> ELSE times[1])

\* main, line 272
Buscar ==
    \E nome_busca \in Queries, i \in 1..Len(opcoes_times), limite \in 1..MaxLimite :
        LET r == search_jogadores(ds[1], nome_busca, opcoes_times[i], limite)
        IN  /\ out = <<>>
            /\ out' = <<[op |-> "search", nome |-> nome_busca,
                         time_filtro |-> opcoes_times[i], limite |-> limite,
                         raised |-> r.raised, result |-> r.result]>>
            /\ UNCHANGED <<ds, times, sysVars, normVars>>

\* get_detalhes_jogador called with any fragment (main, line 312, passes only
\* fragments that are non-empty after trimming)
BuscarDetalhes ==
    \E nome_parte \in Queries :
        LET r == get_detalhes_jogador(ds[1], nome_parte)
        IN  /\ out = <<>>
            /\ out' = <<[op |-> "detalhes", nome |-> nome_parte,
                         time_filtro |-> <<>>, limite |-> 0,
                         raised |-> r.raised, result |-> r.result]>>
            /\ UNCHANGED <<ds, times, sysVars, normVars>>

NextQuery == GetTimes \/ Buscar \/ BuscarDetalhes
SpecQuery == InitQuery /\ [][NextQuery]_vars

\* the query is a case-insensitive literal substring of the value
LiteralContains(v, q) == v # NA /\ Contains(Lower(v), Lower(q))

\* what a search that keeps the rows Keep keeps, after the team filter, the
\* projection, the sort and the truncation
Expected(t, Keep(_), time_filtro, limite) ==
    LET byTime == IF time_filtro # <<>> /\ time_filtro # Todos
                  THEN Filter(Filter(t, Keep),
                              LAMBDA row : row[Col(t, time)] = time_filtro)
                  ELSE Filter(t, Keep)
    IN  head(sort_values(Project(byTime, cols), <<nome_completo>>), limite)

\* C6: with a name query that is empty after trimming (empty or only blanks)
\* and the "Todos" filter, search_jogadores returns every row of the dataset,
\* rows with both names null included, sorted by nome_completo and truncated
\* to limite.
C6_EmptyQueryReturnsAll ==
    (out # <<>> /\ out[1].op = "search" /\ Strip(out[1].nome) = <<>>
       /\ out[1].time_filtro = Todos) =>
        /\ ~out[1].raised
        /\ out[1].result = Expected(ds[1], LAMBDA row : TRUE, Todos, out[1].limite)

\* the same for the empty query alone
EmptyQueryReturnsAll ==
    (out # <<>> /\ out[1].op = "search" /\ out[1].nome = <<>>
       /\ out[1].time_filtro = Todos) =>
        /\ ~out[1].raised
        /\ out[1].result = Expected(ds[1], LAMBDA row : TRUE, Todos, out[1].limite)

\* C7: for every name query that is non-empty after trimming, whatever its
\* characters, search_jogadores does not raise and keeps exactly the rows in
\* which the trimmed query is a case-insensitive literal substring of
\* nome_completo or of apelido (a null field never matches).
C7_LiteralSubstring ==
    (out # <<>> /\ out[1].op = "search" /\ Strip(out[1].nome) # <<>>) =>
        /\ ~out[1].raised
        /\ out[1].result =
             Expected(ds[1],
                      LAMBDA row :
                          \/ LiteralContains(row[Col(ds[1], nome_completo)],
                                             Strip(out[1].nome))
                          \/ LiteralContains(row[Col(ds[1], apelido)],
                                             Strip(out[1].nome)),
                      out[1].time_filtro, out[1].limite)

\* the same for the queries free of regular-expression metacharacters
Plain(q) == \A k \in 1..Len(q) : q[k] \notin {".", "("}
PlainQueryLiteralSubstring ==
    (out # <<>> /\ out[1].op = "search" /\ Plain(out[1].nome)) => C7_LiteralSubstring

\* the rows of the dataset given whose nome_completo is not null
NamedRows == {r \in 1..Len(ds[1].data) : ds[1].data[r][Col(ds[1], nome_completo)] # NA}

\* C8 as stated: get_detalhes_jogador called with a fragment that is empty
\* after trimming returns one row for each row of the dataset, rows with a
\* null nome_completo included.
C8_EmptyFragmentMatchesEveryRow ==
    (out # <<>> /\ out[1].op = "detalhes" /\ Strip(out[1].nome) = <<>>) =>
        /\ ~out[1].raised
        /\ Len(out[1].result.data) = Len(ds[1].data)

\* C8 as amended: get_detalhes_jogador called with a fragment that is empty
\* after trimming returns exactly the rows of the dataset whose nome_completo
\* is not null, one result row for each; rows with a null nome_completo are
\* left out.
C8_EmptyFragmentMatchesNamedRows ==
    (out # <<>> /\ out[1].op = "detalhes" /\ Strip(out[1].nome) = <<>>) =>
        /\ ~out[1].raised
        /\ Len(out[1].result.data) = Cardinality(NamedRows)
        /\ \A k \in 1..Len(out[1].result.data) :
               out[1].result.data[k][Col(out[1].result, nome_completo)] # NA
        /\ \A r \in NamedRows :
               \E k \in 1..Len(out[1].result.data) :
                   out[1].result.data[k] = Project(ds[1], cols).data[r]

\* a blank-only fragment was looked up in a dataset holding a named row and a
\* row with a null name
C8_Witness ==
    /\ out # <<>> /\ out[1].op = "detalhes"
    /\ out[1].nome = <<" ">>
    /\ NamedRows # {} /\ NamedRows # 1..Len(ds[1].data)
    /\ Len(out[1].result.data) = Cardinality(NamedRows)

\* C9: every team t that get_times returns selects, through search_jogadores
\* with an empty name, t as filter and limite at least the size of the
\* dataset, at least one row, and only rows whose time is t.
C9_TeamRoundTrip ==
    (out # <<>> /\ out[1].op = "search" /\ out[1].nome = <<>> /\ times # <<>>
       /\ (\E i \in 1..Len(times[1]) : times[1][i] = out[1].time_filtro)
       /\ out[1].limite >= Len(ds[1].data)) =>
        /\ ~out[1].raised
        /\ out[1].result.data # <<>>
        /\ \A k \in 1..Len(out[1].result.data) :
               out[1].result.data[k][Col(out[1].result, time)] = out[1].time_filtro

\* the same for the datasets whose team values carry no surrounding blanks
\* and are not the "Todos" sentinel
CleanTeams ==
    \A r \in 1..Len(ds[1].data) :
        LET v == ds[1].data[r][Col(ds[1], time)]
        IN  v = NA \/ (Strip(v) = v /\ v # Todos)
CleanTeamRoundTrip == CleanTeams => C9_TeamRoundTrip

(***************************************************************************)
(* The archives on disk, discovery, signatures and load_data               *)
(* (lines 77-146), and the control flow of main (lines 215-378).           *)
(***************************************************************************)
Paths == {bid1, bid2}     \* the names the pattern bid*.csv.zip matches

RawA ==
    [columns |-> << <<"N","o","m","e"," ","C","o","m","p","l","e","t","o">>,
                    <<"C","l","u","b","e">> >>,
     data    |-> << << <<"A","b">>, <<"L">> >> >>]
RawB ==
    [columns |-> << <<"T","i","m","e">>, <<"O","b","s">> >>,
     data    |-> << << <<"T">>, <<"a">> >> >>]

\* the archive contents of the model: the members of each, with the table a
\* .csv member parses to
Archives ==
    << { [name |-> <<"r",".","t","x","t">>, table |-> NoTable] },
       { [name |-> <<"b",".","C","S","V">>, table |-> RawB],
         [name |-> <<"r",".","t","x","t">>, table |-> NoTable] },
       { [name |-> <<"b",".","c","s","v">>, table |-> RawB],
         [name |-> <<"a",".","c","s","v">>, table |-> RawA] } >>

FilesOnDisk ==
    [size : 1..MaxSize, mtime : 0..MaxTime, body : 1..Len(Archives)]

\* discover_zip_files (lines 77-86) with FIXED_ZIPS = None: the existing
\* files the pattern matches, sorted
discover_zip_files ==
    LET found == {p \in Paths : files[p] # <<>>}
        RECURSIVE Sorted(_)
        Sorted(S) ==
            IF S = {} THEN <<>>
            ELSE LET m == CHOOSE x \in S : \A y \in S \ {x} : TextLess(x, y)
                 IN  <<m>> \o Sorted(S \ {m})
    IN  Sorted(found)

\* file_signature (lines 89-97): name, size and int(st_mtime)
file_signature(path) ==
    IF files[path] = <<>> THEN <<path, 0, 0>>
    ELSE <<path, files[path][1].size, files[path][1].mtime \div TicksPerSecond>>

\* str.endswith
EndsWith(s, suffix) ==
    /\ Len(suffix) <= Len(s)
    /\ SubSeq(s, Len(s) - Len(suffix) + 1, Len(s)) = suffix

\* _find_csv_inside_zip (lines 103-112): the first .csv member in sorted
\* order, as <<member>>, or <<>> when it raises FileNotFoundError
find_csv_inside_zip(members) ==
    LET csvs == {m \in members : EndsWith(Lower(m.name), <<".","c","s","v">>)}
    IN  IF csvs = {} THEN <<>>
        ELSE <<CHOOSE m \in csvs : \A o \in csvs \ {m} : TextLess(m.name, o.name)>>

\* lines 124-127: the table read from the archive at path, as <<table>>, or
\* <<>> when opening the archive or finding its .csv member raises
ReadSource(path) ==
    IF files[path] = <<>> THEN <<>>
    ELSE LET m == find_csv_inside_zip(Archives[files[path][1].body])
         IN  IF m = <<>> THEN <<>> ELSE <<m[1].table>>

\* lines 129-136: the normalised table, tagged with the archive's name
Frame(table, path) ==
    LET n == normalizar_colunas(table)
    IN  [columns |-> Append(n.columns, fonte_zip),
         data    |-> [r \in 1..Len(n.data) |-> Append(n.data[r], path)]]

\* a variant of one pass of the loop that skips a source it cannot read
LoadOutcomeSkipping(frs, path) ==
    LET src == ReadSource(path)
    IN  IF src = <<>>
        THEN [raised |-> FALSE, frames |-> frs]
        ELSE [raised |-> FALSE, frames |-> Append(frs, Frame(src[1], path))]

\* one pass of the loop of lines 123-138 on the frames gathered so far
LoadOutcome(frs, path) ==
    LET src == ReadSource(path)
    IN  IF src = <<>>
        THEN [raised |-> TRUE, frames |-> frs]
        ELSE [raised |-> FALSE, frames |-> Append(frs, Frame(src[1], path))]

\* pd.concat(frames, ignore_index=True) (line 145) on frames of equal columns
RECURSIVE ConcatRows(_)
ConcatRows(frs) ==
    IF frs = <<>> THEN <<>> ELSE Head(frs).data \o ConcatRows(Tail(frs))
Concat(frs) == [columns |-> frs[1].columns, data |-> ConcatRows(frs)]

\* what load_data (lines 121-146) builds from the files as they are in this
\* state: <<dataset>>, or <<>> when it raises
BuildNow(paths) ==
    IF paths = <<>> \/ \E i \in 1..Len(paths) : ReadSource(paths[i]) = <<>>
    THEN <<>>
    ELSE <<Concat([i \in 1..Len(paths) |->
                      Frame(ReadSource(paths[i])[1], paths[i])])>>

\* a variant of the cache that never finds an entry
CacheHitNever(key) == FALSE

\* st.cache_data (line 115): an entry is stored under these arguments
CacheHit(key) == key \in DOMAIN cache

\* a variant of the handler of lines 229-231 that lets the run go on
GoOnAfterLoadError == "loaded"

\* lines 229-231: st.error, then st.stop ends the run
AfterLoadError == "stopped"

\* the two argument lists name the same paths and differ in one signature
\* only, by one byte of size or by one second of modification time
OneStep(k1, k2) ==
    /\ k1[1] = k2[1]
    /\ \E i \in 1..Len(k1[2]) :
         /\ \A j \in 1..Len(k1[2]) : j # i => k1[2][j] = k2[2][j]
         /\ \/ /\ k1[2][i][3] = k2[2][i][3]
               /\ k1[2][i][2] - k2[2][i][2] \in {-1, 1}
            \/ /\ k1[2][i][2] = k2[2][i][2]
               /\ k1[2][i][3] - k2[2][i][3] \in {-1, 1}

NoCall ==
    [status |-> "none", key |-> <<>>, hit |-> FALSE, opened |-> <<>>,
     repeated |-> FALSE, same |-> FALSE, oneStep |-> FALSE, srcFailed |-> FALSE,
     fresh |-> FALSE]

\* main has not run yet and the cache is empty
Fresh ==
    /\ cache = <<>>
    /\ pc = "idle"
    /\ zip_files = <<>> /\ signatures = <<>> /\ frames = <<>> /\ df = <<>>
    /\ call = NoCall
    /\ queried = {}
    /\ hist = [returned |-> <<>>, lastKey |-> <<>>]
    /\ NormIdle /\ QueryIdle

FirstArchive == [size |-> 1, mtime |-> 0, body |-> 3]

Init ==
    /\ files \in [Paths -> {<<>>, <<FirstArchive>>}]
    /\ writesLeft = MaxWrites /\ runsLeft = MaxRuns
    /\ Fresh

mainVars == <<pc, zip_files, signatures, frames, df, call, queried, runsLeft, cache, hist>>

\* somebody writes an archive: new bytes, and a modification time not before
\* the one the file had
WriteFile ==
    \E p \in Paths, f \in FilesOnDisk :
        /\ writesLeft > 0
        /\ files[p] # <<>> => f.mtime >= files[p][1].mtime
        /\ files' = [files EXCEPT ![p] = <<f>>]
        /\ writesLeft' = writesLeft - 1
        /\ UNCHANGED <<mainVars, normVars, queryVars>>

\* somebody removes an archive
DeleteFile ==
    \E p \in Paths :
        /\ writesLeft > 0
        /\ files[p] # <<>>
        /\ files' = [files EXCEPT ![p] = <<>>]
        /\ writesLeft' = writesLeft - 1
        /\ UNCHANGED <<mainVars, normVars, queryVars>>

\* a run of main starts (line 223)
Discover ==
    /\ pc \in {"idle", "done", "stopped"}
    /\ runsLeft > 0
    /\ runsLeft' = runsLeft - 1
    /\ zip_files' = discover_zip_files
    /\ signatures' = <<>> /\ frames' = <<>> /\ df' = <<>>
    /\ call' = NoCall /\ queried' = {}
    /\ pc' = "sign"
    /\ UNCHANGED <<files, writesLeft, cache, hist, normVars, queryVars>>

\* line 224, one file at a time
Sign ==
    /\ pc = "sign"
    /\ Len(signatures) < Len(zip_files)
    /\ signatures' = Append(signatures, file_signature(zip_files[Len(signatures) + 1]))
    /\ UNCHANGED <<files, writesLeft, pc, zip_files, frames, df, call, queried,
                   runsLeft, cache, hist, normVars, queryVars>>

\* the state of main and of the cache when load_data returns t, or raises
Returned(c, t) ==
    /\ df' = <<t>>
    /\ pc' = "loaded"
    /\ call' = [c EXCEPT !.status = "ok",
                          !.same = (c.repeated /\ t = hist.returned[c.key]),
                          !.fresh = (<<t>> = BuildNow(zip_files))]
    /\ hist' = [returned |-> IF c.key \in DOMAIN hist.returned THEN hist.returned
                             ELSE (c.key :> t) @@ hist.returned,
                lastKey  |-> <<c.key>>]
Raised(c) ==
    /\ df' = <<>>
    /\ pc' = AfterLoadError
    /\ call' = [c EXCEPT !.status = "failed"]
    /\ UNCHANGED <<cache, hist>>

\* line 228: load_data is called; st.cache_data looks its arguments up and,
\* on a miss, the body starts (line 121), raising at once when there is no
\* source (lines 140-143)
CallLoadData ==
    /\ pc = "sign"
    /\ Len(signatures) = Len(zip_files)
    /\ LET key == <<zip_files, signatures>>
           c   == [NoCall EXCEPT
                     !.key = key,
                     !.repeated = key \in DOMAIN hist.returned,
                     !.oneStep = (hist.lastKey # <<>> /\ OneStep(hist.lastKey[1], key))]
       IN  IF CacheHit(key)
           THEN /\ Returned([c EXCEPT !.hit = TRUE], cache[key])
                /\ UNCHANGED <<cache, frames>>
           ELSE IF zip_files = <<>>
           THEN Raised(c) /\ UNCHANGED frames
           ELSE /\ pc' = "load"
                /\ call' = [c EXCEPT !.status = "running"]
                /\ frames' = <<>>
                /\ UNCHANGED <<df, cache, hist>>
    /\ UNCHANGED <<files, writesLeft, zip_files, signatures, queried, runsLeft,
                   normVars, queryVars>>

\* one pass of the loop of lines 123-138; after the last one, lines 140-146
\* and the store into the cache
LoadStep ==
    /\ pc = "load"
    /\ LET path == zip_files[Len(call.opened) + 1]
           o    == LoadOutcome(frames, path)
           c    == [call EXCEPT !.opened = Append(@, path),
                                !.srcFailed = @ \/ ReadSource(path) = <<>>]
       IN  /\ frames' = o.frames
           /\ IF o.raised
              THEN Raised(c)
              ELSE IF Len(c.opened) < Len(zip_files)
              THEN /\ call' = c
                   /\ UNCHANGED <<pc, df, cache, hist>>
              ELSE IF o.frames = <<>>
              THEN Raised(c)
              ELSE /\ Returned(c, Concat(o.frames))
                   /\ cache' = (c.key :> Concat(o.frames)) @@ cache
    /\ UNCHANGED <<files, writesLeft, zip_files, signatures, queried, runsLeft,
                   normVars, queryVars>>

\* lines 233-378: the page is drawn: the team list is computed and, when a
\* button was pressed, one query function is called
Render ==
    /\ pc = "loaded"
    /\ \E pressed \in {{}, {"search_jogadores"}, {"get_detalhes_jogador"}} :
           queried' = {"get_times"} \cup pressed
    /\ pc' = "done"
    /\ UNCHANGED <<files, writesLeft, zip_files, signatures, frames, df, call,
                   runsLeft, cache, hist, normVars, queryVars>>

Next == WriteFile \/ DeleteFile \/ Discover \/ Sign \/ CallLoadData \/ LoadStep \/ Render
Spec == Init /\ [][Next]_vars

\* the same program and environment, followed for longer from one directory
InitChurn ==
    /\ files = [p \in Paths |-> <<FirstArchive>>]
    /\ writesLeft = MaxChurnWrites /\ runsLeft = MaxChurnRuns
    /\ Fresh
SpecChurn == InitChurn /\ [][Next]_vars

\* C1: a load_data call whose arguments equal those of an earlier successful
\* call returns the dataset that call built, and opens no source file.
C1_RepeatedCallServedFromCache ==
    (call.status = "ok" /\ call.repeated) =>
        /\ call.same
        /\ call.opened = <<>>

\* a later run called load_data with arguments already used, after the
\* archives were rewritten in between
C1_Witness ==
    /\ call.status = "ok" /\ call.repeated /\ call.hit /\ call.same
    /\ runsLeft = 0 /\ writesLeft = 0
    /\ ~call.fresh

\* C2: when the arguments of a load differ from those of the previous
\* successful load by exactly one byte of size or one second of modification
\* time in one signature, the load does not return a cached dataset: it
\* rebuilds, reading every source as it is now.
C2_SignatureChangeForcesRebuild ==
    (call.status = "ok" /\ call.oneStep) => (~call.hit /\ call.opened = zip_files)

\* the same for the loads whose arguments were never used before
NewArgumentsForceRebuild ==
    (call.status = "ok" /\ ~call.repeated) => (~call.hit /\ call.opened = zip_files)

\* C4: when a source cannot be read, load_data returns no dataset, not even
\* of the sources read before it, and nothing is stored in the cache under
\* the arguments of the call.
C4_FailureAbortsWholeLoad ==
    call.srcFailed =>
        /\ call.status = "failed"
        /\ df = <<>>
        /\ call.key \notin DOMAIN cache

\* the second source of two could not be read, after the first was
C4_Witness ==
    /\ call.srcFailed /\ call.status = "failed"
    /\ Len(zip_files) = 2 /\ Len(frames) = 1 /\ Len(call.opened) = 2
    /\ df = <<>>

\* C5: in a run in which loading fails (no source was discovered, or a source
\* cannot be read) the run stops and no query function is invoked; a query is
\* invoked only after load_data returned a dataset in the same run.
C5_NoQueryAfterFailedLoad ==
    /\ call.status = "failed" => (pc = "stopped" /\ queried = {})
    /\ ((call.status # "none" /\ zip_files = <<>>) \/ call.srcFailed) =>
           call.status = "failed"
    /\ queried # {} => (call.status = "ok" /\ df # <<>>)

\* no source was discovered, load_data raised and the run stopped
C5_Witness ==
    /\ pc = "stopped" /\ call.status = "failed"
    /\ zip_files = <<>> /\ queried = {}

\* C10: whenever load_data returns a dataset to a run, freshly built or from
\* the cache, the dataset is the one a rebuild from the files as they are at
\* that moment produces.
C10_ServedDatasetIsFresh ==
    call.status = "ok" => call.fresh

\* the part of C10 about the cache: a dataset served from the cache is the
\* one a rebuild from the files as they are at that moment produces
CacheHitServesFreshDataset ==
    (call.status = "ok" /\ call.hit) => call.fresh

\* C10 for the loads that found no entry in the cache and read a single
\* archive
SingleSourceMissIsFresh ==
    (call.status = "ok" /\ ~call.hit /\ Len(zip_files) = 1) => call.fresh

====
